---- MODULE Spec2Model ----
(***************************************************************************)
(* Model of monaco-spellchecker (src/src/spellchecker.ts): the default     *)
(* tokenizer, the annotation pass process(), the code-action provider,     *)
(* the ignore / add-word command handlers and dispose().                   *)
(*                                                                         *)
(* Strings are sequences of one-character strings, so that positions,      *)
(* lengths and sub-strings are computed the way the code computes them.    *)
(***************************************************************************)
EXTENDS Integers, Sequences, FiniteSets, TLC

VARIABLES
    text,         \* model.getValue(): the document content, one flat string
    attached,     \* editor.getModel() is not null
    dict,         \* the embedder's checker state: the words check() accepts
    opts,         \* the options captured by getSpellchecker
    disposed,     \* the closure variable `disposed`
    disposables,  \* the closure array `disposables`
    hostRegs,     \* the host's live registrations (actions and provider)
    store,        \* the host marker store for owner 'spellchecker'
    lastPub,      \* which process() call wrote `store` last (0: none / cleared)
    calls,        \* every process() call so far, in the order they were made
    queries,      \* every provideCodeActions call so far
    handlers,     \* every ignore / add-word command run so far
    gen,          \* one defaultTokenize generator object (tokenizer runs)
    fixes,        \* every run of the apply-suggestion command so far
    released,     \* how often each registration's dispose() has been called
    disposals,    \* how often the session's dispose() has been called
    peer          \* a second session, on another document of the same host

vars == <<text, attached, dict, opts, disposed, disposables, hostRegs, store,
          lastPub, calls, queries, handlers, gen, fixes, released, disposals,
          peer>>

-----------------------------------------------------------------------------
(* Bounds of the model *)

\* longest line handed to the tokenizer in the tokenizer specification
MaxLineLen == 5
\* number of process() calls in one behaviour
MaxCalls == 2
\* number of provideCodeActions calls in one behaviour
MaxQueries == 1
\* number of ignore / add-word command runs in one behaviour
MaxCommands == 1
\* the same three bounds for the sessions on long documents
CapMaxCalls == 1
CapMaxQueries == 1
CapMaxCommands == 1
\* dispose() calls on one session
MaxDisposals == 1
\* the bounds of the specification with the host's other clients
HostMaxCalls == 1
HostMaxQueries == 1
HostMaxCommands == 1
HostMaxDisposals == 2
\* runs of the apply-suggestion command
MaxFixes == 1

-----------------------------------------------------------------------------
(* Characters *)

LowerCase == {"a","b","c","d","e","f","g","h","i","j","k","l","m",
              "n","o","p","q","r","s","t","u","v","w","x","y","z"}
UpperCase == {"A","B","C","D","E","F","G","H","I","J","K","L","M",
              "N","O","P","Q","R","S","T","U","V","W","X","Y","Z"}
Digits == {"0","1","2","3","4","5","6","7","8","9"}

\* the character class [a-zA-Z'] of wordReg
ClassChars == LowerCase \cup UpperCase \cup {"'"}

\* the regular expression class \w, which decides where \b matches
WordChars == LowerCase \cup UpperCase \cup Digits \cup {"_"}

\* the characters of the lines the tokenizer specification enumerates
TokAlphabet == {"a", "'", "1", "_", " "}

-----------------------------------------------------------------------------
(* defaultTokenize: /\b[a-zA-Z']+\b/g driven by exec() in a generator.      *)
(* Positions are zero-based as in the code; text[k+1] is the character at   *)
(* position k.                                                              *)

IsWordChar(t, k) == k >= 0 /\ k < Len(t) /\ t[k + 1] \in WordChars

\* \b at position k: exactly one side is a \w character
AtBoundary(t, k) == IsWordChar(t, k - 1) # IsWordChar(t, k)

\* [a-zA-Z']+ is greedy: it first takes the whole run starting at k
RECURSIVE ClassRunEnd(_, _)
ClassRunEnd(t, k) ==
    IF k < Len(t) /\ t[k + 1] \in ClassChars THEN ClassRunEnd(t, k + 1) ELSE k

\* ... and gives characters back until the trailing \b matches
RECURSIVE Backtrack(_, _, _)
Backtrack(t, i, j) ==
    IF j <= i THEN -1
    ELSE IF AtBoundary(t, j) THEN j
    ELSE Backtrack(t, i, j - 1)

\* the expression without its two \b: /[a-zA-Z']+/g
MatchAt_noBoundary(t, i) ==
    IF ClassRunEnd(t, i) > i THEN ClassRunEnd(t, i) ELSE -1

\* the end of the match that starts at position i, or -1
MatchAt(t, i) ==
    IF AtBoundary(t, i) THEN Backtrack(t, i, ClassRunEnd(t, i)) ELSE -1

NoMatch == [index |-> -1, end |-> -1]

\* wordReg.exec(text) with wordReg.lastIndex = from
RECURSIVE RegexExec(_, _)
RegexExec(t, from) ==
    IF from > Len(t) THEN NoMatch
    ELSE LET e == MatchAt(t, from) IN
         IF e # -1 THEN [index |-> from, end |-> e]
         ELSE RegexExec(t, from + 1)

\* the shortest word the generator yields (word.length < 2 is skipped)
MinWordLen == 2

\* One next() of the generator: run the while loop up to the next yield.
\* g = [text, lastIndex, done]; the result carries the yielded token.
RECURSIVE GenNext(_)
GenNext(g) ==
    LET m == RegexExec(g.text, g.lastIndex) IN
    IF m = NoMatch
    THEN [g |-> [g EXCEPT !.lastIndex = 0, !.done = TRUE], yield |-> <<>>]
    ELSE LET g2 == [g EXCEPT !.lastIndex = m.end] IN
         IF m.end - m.index < MinWordLen
         THEN GenNext(g2)
         ELSE [g |-> g2,
               yield |-> <<[word |-> SubSeq(g.text, m.index + 1, m.end),
                            pos |-> m.index]>>]

NewGen(t) == [text |-> t, lastIndex |-> 0, done |-> FALSE]

\* for (const {word, pos} of tokenize(line)): everything the generator yields
RECURSIVE Drain(_, _)
Drain(g, acc) ==
    LET r == GenNext(g) IN
    IF r.g.done THEN acc ELSE Drain(r.g, acc \o r.yield)

defaultTokenize(t) == Drain(NewGen(t), <<>>)

-----------------------------------------------------------------------------
(* Identifiers and message texts *)

owner == "spellchecker"
ignoreActionId == "spellchecker.ignore"
addWordActionId == "spellchecker.addWord"
correctActionId == "spellchecker.correct"

\* the registration returned by registerCodeActionProvider
providerRegistration == "codeActionProvider"

\* `vs.editor.ICodeEditor:1:${actionId}`
buildCustomEditorId(actionId) == <<"vs.editor.ICodeEditor:1:", actionId>>

\* the template strings, as the list of their pieces
defaultMessageBuilder(type, word) ==
    CASE type = "hover-message" -> <<"\"", word, "\" is misspelled.">>
      [] type = "ignore" -> <<"Ignore \"", word, "\"">>
      [] type = "add-word" -> <<"Add \"", word, "\" to Dictionary">>
      [] type = "apply-suggestion" -> <<"Replace with \"", word, "\"">>
      [] OTHER -> <<>>

\* monaco.MarkerSeverity.Warning
Warning == 4

\* opts.severity || monaco.MarkerSeverity.Warning (0: the option is absent)
Severity(o) == IF o.severity # 0 THEN o.severity ELSE Warning

-----------------------------------------------------------------------------
(* The documents, words and ranges the model draws its inputs from *)

ok == <<"o", "k">>
qq == <<"q", "q">>
zz == <<"z", "z">>
cat == <<"c", "a", "t">>
car == <<"c", "a", "r">>
xx == <<"x", "x">>
qx == <<"q", "x">>

\* "qq ok"
DocOneLine == <<"q", "q", " ", "o", "k">>
\* "ok\n'qq' zz"
DocTwoLines == <<"o", "k", "\n", "'", "q", "q", "'", " ", "z", "z">>
\* ""
DocEmpty == <<>>

SmallDocs == {DocOneLine, DocTwoLines, DocEmpty}

\* the host's marker capacity the scan stops after (line 93)
MaxMarkers == 500

\* n copies of the string u in a row
Repeat(u, n) == [i \in 1..(n * Len(u)) |-> u[((i - 1) % Len(u)) + 1]]

\* how far the long documents go past the marker capacity
Excess == 2

\* one line of MaxMarkers + Excess misspelled words: "zz zz zz ..."
DocLongLine == Repeat(<<"z", "z", " ">>, MaxMarkers + Excess)
\* a line of exactly MaxMarkers misspelled words, then Excess lines of one
\* misspelled word each, the first of them checked asynchronously
DocLongThenMore ==
    Repeat(<<"z", "z", " ">>, MaxMarkers) \o <<"\n", "q", "q">>
        \o Repeat(<<"\n", "z", "z">>, Excess - 1)
\* exactly MaxMarkers misspelled words on one line, then a correct line
DocAtCap == Repeat(<<"z", "z", " ">>, MaxMarkers) \o <<"\n", "o", "k">>

LongDocs == {DocLongLine, DocLongThenMore, DocAtCap}

\* documents with a word the checker fails on: after a misspelled word it
\* answers with a promise, after one it answers at once
DocThrowSync == <<"q", "q", " ", "x", "x">>
DocThrowAsync == <<"z", "z", " ", "q", "x">>

ThrowDocs == {DocOneLine, DocThrowSync, DocThrowAsync}

\* the words check() accepts before any ignore / add-word
InitDict == {ok}

\* check() answers these words with a promise, every other word with a boolean
AsyncWords == {qq, ok, qx}

\* check() throws on xx, and answers qx with a promise that rejects
FailWords == {xx, qx}

\* the word argument of an ignore / add-word command (<<>>: a falsy argument)
CommandWords == {<<>>, qq, zz}

\* what suggest() may resolve to
SuggestLists == {<<>>, <<cat, car>>, <<<<>>, cat>>}

MkRange(sl, sc, el, ec) ==
    [startLineNumber |-> sl, startColumn |-> sc,
     endLineNumber |-> el, endColumn |-> ec]

\* the ranges a code-action query is made with
QueryRanges == {MkRange(1, 2, 1, 3), MkRange(2, 7, 2, 7), MkRange(1, 1, 2, 1)}

-----------------------------------------------------------------------------
(* process(): lines 81-133 *)

\* text.split('\n')
RECURSIVE SplitFrom(_, _)
SplitFrom(t, from) ==
    LET rest == {i \in from..Len(t) : t[i] = "\n"} IN
    IF rest = {} THEN <<SubSeq(t, from, Len(t))>>
    ELSE LET n == CHOOSE i \in rest : \A j \in rest : i <= j IN
         <<SubSeq(t, from, n - 1)>> \o SplitFrom(t, n + 1)

Split(t) == SplitFrom(t, 1)

\* check(word), as the embedder's dictionary answers it
check(word, d) == word \in d

\* typeof result === 'boolean': no await for this word
CheckIsSync(word) == word \notin AsyncWords

\* the call of check(word), or the await of its promise, throws
CheckFails(word) == word \in FailWords

\* the scan stopped as soon as the list holds MaxMarkers elements
CapReached_atCapacity(marks) == Len(marks) >= MaxMarkers

\* if (marks.length > 500) break
CapReached(marks) == Len(marks) > MaxMarkers

\* a marks array that outlives the call: it still holds what was published
NewMarks_shared == store

\* const marks = []
NewMarks == <<>>

\* a startColumn that stays zero-based
MakeMark_zeroBasedColumn(word, pos, lineIndex, o) ==
    [code |-> word,
     startLineNumber |-> lineIndex + 1,
     startColumn |-> pos,
     endLineNumber |-> lineIndex + 1,
     endColumn |-> pos + Len(word),
     message |-> defaultMessageBuilder("hover-message", word),
     severity |-> Severity(o)]

\* the object pushed at lines 119-127
MakeMark(word, pos, lineIndex, o) ==
    LET startColumn == pos + 1
        endColumn == startColumn + Len(word)
    IN [code |-> word,
        startLineNumber |-> lineIndex + 1,
        startColumn |-> startColumn,
        endLineNumber |-> lineIndex + 1,
        endColumn |-> endColumn,
        message |-> defaultMessageBuilder("hover-message", word),
        severity |-> Severity(o)]

\* a process() that lacks the guard of line 82
DisposedAtStart_unguarded(d) == FALSE

\* if (disposed) return, at the top of process()
DisposedAtStart(d) == d

\* a process() that lacks the recheck of line 109
DisposedAfterCheck_unchecked(d) == FALSE

\* if (disposed) return, after the checker's answer
DisposedAfterCheck(d) == d

NoGen == [text |-> <<>>, lastIndex |-> 0, done |-> TRUE]
NoToken == [word |-> <<>>, pos |-> 0]

\* The frame of one process() call.  pc is where it stands:
\*   "line"    at the test of the for loop over lines (line 92)
\*   "word"    at the for-of loop over the tokens of a line (line 101)
\*   "await"   suspended in `await result` (line 107)
\*   "publish" past the loops, at setModelMarkers (line 132)
\*   "return"  returned without publishing (lines 82, 85, 109)
\* d0 and interrupted are history: the dictionary when the call started and
\* whether dispose() ran while the call was suspended.
NewCall(t, d) ==
    [pc |-> "line", lines |-> Split(t), lineIndex |-> 0, words |-> NoGen,
     token |-> NoToken, result |-> FALSE, marks |-> NewMarks,
     d0 |-> d, d1 |-> d, interrupted |-> FALSE, checks |-> 0]

ReturnedCall(d) ==
    [pc |-> "return", lines |-> <<>>, lineIndex |-> 0, words |-> NoGen,
     token |-> NoToken, result |-> FALSE, marks |-> <<>>,
     d0 |-> d, d1 |-> d, interrupted |-> FALSE, checks |-> 0]

\* a marker pushed for every token, whatever the checker answered
AfterCheck_marksAll(c, isCorrect, o, dsp) ==
    IF DisposedAfterCheck(dsp) THEN [c EXCEPT !.pc = "return"]
    ELSE [c EXCEPT !.pc = "word",
                   !.marks = Append(@, MakeMark(c.token.word, c.token.pos,
                                                c.lineIndex, o))]

\* lines 109-128: the code after the checker's answer isCorrect is known
AfterCheck(c, isCorrect, o, dsp) ==
    IF DisposedAfterCheck(dsp) THEN [c EXCEPT !.pc = "return"]
    ELSE IF ~isCorrect
    THEN [c EXCEPT !.pc = "word",
                   !.marks = Append(@, MakeMark(c.token.word, c.token.pos,
                                                c.lineIndex, o))]
    ELSE [c EXCEPT !.pc = "word"]

\* an exception thrown out of the loops and written to the store all the same
Thrown_publishes(c) == [c EXCEPT !.pc = "publish"]

\* process() has no try/catch: an exception at line 105 or 107 ends the call
\* there, its promise rejected
Thrown(c) == [c EXCEPT !.pc = "threw"]

\* the element of a one-element set: what it is applied to is computed once
Only(S) == CHOOSE x \in S : TRUE

\* one iteration of whichever loop the call stands in: r is what the
\* generator's next() returns, c2 the frame once check(word) has been called
Step(c, d, o, dsp) ==
    CASE c.pc = "line" ->
           IF c.lineIndex >= Len(c.lines) \/ CapReached(c.marks)
           THEN [c EXCEPT !.pc = "publish"]
           ELSE [c EXCEPT !.pc = "word",
                          !.words = NewGen(c.lines[c.lineIndex + 1])]
      [] c.pc = "word" ->
           Only({IF r.g.done
                 THEN [c EXCEPT !.pc = "line", !.lineIndex = @ + 1,
                                !.words = NoGen]
                 ELSE Only({IF CheckIsSync(c2.token.word)
                            THEN IF CheckFails(c2.token.word) THEN Thrown(c2)
                                 ELSE AfterCheck(c2, c2.result, o, dsp)
                            ELSE [c2 EXCEPT !.pc = "await"] :
                            c2 \in {[c EXCEPT !.words = r.g,
                                              !.token = r.yield[1],
                                              !.result = check(r.yield[1].word, d),
                                              !.checks = @ + 1]}}) :
                 r \in {GenNext(c.words)}})
      [] OTHER -> c

Halted(c) == c.pc \in {"await", "publish", "return", "threw"}

\* Run the call until it suspends or ends: n bounds the iterations left.  The
\* iterations are split in halves so that a long scan nests only a few levels;
\* m, the frame after the first half, is computed once.
RECURSIVE RunFor(_, _, _, _, _)
RunFor(c, n, d, o, dsp) ==
    IF Halted(c) \/ n = 0 THEN c
    ELSE IF n = 1 THEN Step(c, d, o, dsp)
    ELSE LET h == n \div 2 IN
         Only({RunFor(m, n - h, d, o, dsp) : m \in {RunFor(c, h, d, o, dsp)}})

\* every iteration consumes a line or at least one character of a line
StepBound(c) == 2 * Len(c.lines) + 2 +
    (IF c.lines = <<>> THEN 0
     ELSE LET longest == CHOOSE i \in 1..Len(c.lines) :
                           \A j \in 1..Len(c.lines) : Len(c.lines[j]) <= Len(c.lines[i])
          IN Len(c.lines) * Len(c.lines[longest]))

\* a call that makes one iteration and then stands still
Run_oneStep(c, d, o, dsp) == RunFor(c, 1, d, o, dsp)

Run(c, d, o, dsp) == RunFor(c, StepBound(c), d, o, dsp)

\* the list written to the store at every suspension, as it grows
Settle_incremental(i, c, d) ==
    LET final == IF c.pc = "publish"
                 THEN [c EXCEPT !.pc = "published", !.d1 = d]
                 ELSE c
        n == IF i > Len(calls) THEN i ELSE Len(calls)
    IN /\ calls' = [k \in 1..n |-> IF k = i THEN final ELSE calls[k]]
       /\ IF c.pc \in {"publish", "await"}
          THEN store' = c.marks /\ lastPub' = i
          ELSE UNCHANGED <<store, lastPub>>

\* the list of a call dropped when a call started later has published already
Settle_dropStale(i, c, d) ==
    LET final == IF c.pc = "publish"
                 THEN [c EXCEPT !.pc = "published", !.d1 = d]
                 ELSE c
        n == IF i > Len(calls) THEN i ELSE Len(calls)
        stale == \E j \in (i + 1)..Len(calls) : calls[j].pc = "published"
    IN /\ calls' = [k \in 1..n |-> IF k = i THEN final ELSE calls[k]]
       /\ IF c.pc = "publish" /\ ~stale
          THEN store' = c.marks /\ lastPub' = i
          ELSE UNCHANGED <<store, lastPub>>

\* What the end of a step of call i leaves behind: the frame c, and the
\* marker store written when the call got to line 132.
\* monaco.editor.setModelMarkers(model, owner, marks)
Settle(i, c, d) ==
    LET final == IF c.pc = "publish"
                 THEN [c EXCEPT !.pc = "published", !.d1 = d]
                 ELSE c
        n == IF i > Len(calls) THEN i ELSE Len(calls)
    IN /\ calls' = [k \in 1..n |-> IF k = i THEN final ELSE calls[k]]
       /\ IF c.pc = "publish"
          THEN store' = c.marks /\ lastPub' = i
          ELSE UNCHANGED <<store, lastPub>>

\* the body of process() up to its first suspension, with the checker state d
processBody(d) ==
    LET i == Len(calls) + 1 IN
    IF DisposedAtStart(disposed) THEN Settle(i, ReturnedCall(d), d)
    ELSE IF ~attached THEN Settle(i, ReturnedCall(d), d)
    ELSE Settle(i, Run(NewCall(text, d), d, opts, disposed), d)

\* the embedder (or a content-change listener) calls process()
process(maxCalls) ==
    /\ Len(calls) < maxCalls
    /\ processBody(dict)
    /\ UNCHANGED <<text, attached, dict, opts, disposed, disposables, hostRegs,
                   queries, handlers, gen,
                   fixes, released, disposals, peer>>

\* the checker's promise of call i settles and the call runs on, or ends on
\* the rejection
processResume(i) ==
    /\ i \in 1..Len(calls)
    /\ calls[i].pc = "await"
    /\ LET c1 == IF CheckFails(calls[i].token.word) THEN Thrown(calls[i])
                 ELSE AfterCheck(calls[i], calls[i].result, opts, disposed)
       IN \E c \in {Run(c1, dict, opts, disposed)} : Settle(i, c, dict)
    /\ UNCHANGED <<text, attached, dict, opts, disposed, disposables, hostRegs,
                   queries, handlers, gen,
                   fixes, released, disposals, peer>>

-----------------------------------------------------------------------------
(* getSpellchecker: the registrations made at construction, lines 201-251 *)

IgnoreRegistration(o) == IF o.ignore THEN <<ignoreActionId>> ELSE <<>>

AddWordRegistration(o) == IF o.addWord THEN <<addWordActionId>> ELSE <<>>

InitDisposables(o) ==
    <<correctActionId, providerRegistration>>
        \o IgnoreRegistration(o) \o AddWordRegistration(o)

SeqRange(q) == {q[i] : i \in 1..Len(q)}

\* every registration a session can make
RegistrationIds ==
    SeqRange(InitDisposables([ignore |-> TRUE, addWord |-> TRUE]))

-----------------------------------------------------------------------------
(* dispose(): lines 253-258 *)

\* the array left as it is after its elements were disposed of
ClearedDisposables_kept == disposables

\* disposables.length = 0
ClearedDisposables == <<>>

\* how many elements of the array q are the registration id
Occurrences(q, id) == Cardinality({k \in 1..Len(q) : q[k] = id})

\* monaco.editor.removeAllMarkers(owner) removes the owner's markers of every
\* model, those of the second session's document included.
dispose(maxDisposals) ==
    /\ disposals < maxDisposals
    /\ store' = <<>>
    /\ lastPub' = 0
    /\ peer' = [peer EXCEPT !.store = <<>>]
    /\ hostRegs' = hostRegs \ SeqRange(disposables)
    /\ released' = [id \in DOMAIN released |->
                       released[id] + Occurrences(disposables, id)]
    /\ disposables' = ClearedDisposables
    /\ disposed' = TRUE
    /\ disposals' = disposals + 1
    /\ calls' = [k \in 1..Len(calls) |->
                   IF calls[k].pc = "await"
                   THEN [calls[k] EXCEPT !.interrupted = TRUE]
                   ELSE calls[k]]
    /\ UNCHANGED <<text, attached, dict, opts, queries, handlers, gen, fixes>>

-----------------------------------------------------------------------------
(* The user edits the document *)

setValue(d) ==
    /\ attached
    /\ d # text
    /\ text' = d
    /\ UNCHANGED <<attached, dict, opts, disposed, disposables, hostRegs, store,
                   lastPub, calls, queries, handlers, gen,
                   fixes, released, disposals, peer>>

-----------------------------------------------------------------------------
(* codeActionProvider.provideCodeActions: lines 136-198 *)

\* range.containsRange.call(marker, range): Range.containsRange with
\* `this` bound to the marker
ContainsRange(marker, range) ==
    /\ ~(range.startLineNumber < marker.startLineNumber
         \/ range.endLineNumber < marker.startLineNumber)
    /\ ~(range.startLineNumber > marker.endLineNumber
         \/ range.endLineNumber > marker.endLineNumber)
    /\ ~(range.startLineNumber = marker.startLineNumber
         /\ range.startColumn < marker.startColumn)
    /\ ~(range.endLineNumber = marker.endLineNumber
         /\ range.endColumn > marker.endColumn)

\* markers.find(...): the index of the first marker that contains the range,
\* 0 when there is none
FindMarker(markers, range) ==
    LET hits == {i \in 1..Len(markers) : ContainsRange(markers[i], range)} IN
    IF hits = {} THEN 0 ELSE CHOOSE i \in hits : \A j \in hits : i <= j

\* list.forEach(suggestion => actions.push(...)), lines 152-166
ApplyActions(list, marker) ==
    [i \in 1..Len(list) |->
       [title |-> list[i],
        command |-> [id |-> buildCustomEditorId(correctActionId),
                     title |-> defaultMessageBuilder("apply-suggestion", list[i]),
                     arguments |-> <<[range |-> marker, suggestion |-> list[i]]>>],
        ranges |-> <<marker>>,
        kind |-> "quickfix"]]

\* an ignore action pushed whether or not the capability is configured
IgnoreAction_always(o, word, marker) ==
    <<[title |-> defaultMessageBuilder("ignore", word),
       command |-> [id |-> buildCustomEditorId(ignoreActionId),
                    title |-> defaultMessageBuilder("ignore", word),
                    arguments |-> <<word>>],
       ranges |-> <<marker>>,
       kind |-> "quickfix"]>>

\* if (ignore) actions.push(...), lines 168-180
IgnoreAction(o, word, marker) ==
    IF o.ignore
    THEN <<[title |-> defaultMessageBuilder("ignore", word),
            command |-> [id |-> buildCustomEditorId(ignoreActionId),
                         title |-> defaultMessageBuilder("ignore", word),
                         arguments |-> <<word>>],
            ranges |-> <<marker>>,
            kind |-> "quickfix"]>>
    ELSE <<>>

\* if (addWord) actions.push(...), lines 182-194
AddWordAction(o, word, marker) ==
    IF o.addWord
    THEN <<[title |-> defaultMessageBuilder("add-word", word),
            command |-> [id |-> buildCustomEditorId(addWordActionId),
                         title |-> defaultMessageBuilder("add-word", word),
                         arguments |-> <<word>>],
            ranges |-> <<marker>>,
            kind |-> "quickfix"]>>
    ELSE <<>>

\* the ignore and add-word actions pushed before the suggestions
BuildActions_suggestionsLast(list, word, marker, o) ==
    IgnoreAction(o, word, marker) \o AddWordAction(o, word, marker)
        \o ApplyActions(list, marker)

\* the actions array in the order the code pushes to it
BuildActions(list, word, marker, o) ==
    ApplyActions(list, marker) \o IgnoreAction(o, word, marker)
        \o AddWordAction(o, word, marker)

\* if (disposed) return null, at the top of provideCodeActions
ProviderDisposed(d) == d

\* the cancellation token never looked at
CancelledAfterSuggest_ignored(c) == FALSE

\* if (token.isCancellationRequested) return null: the only test the provider
\* makes after the await (line 150)
CancelledAfterSuggest(c) == c

NullResult == [null |-> TRUE, actions |-> <<>>]

NoMarker == MakeMark(<<>>, 0, 0, [severity |-> 0])

\* The frame of one provideCodeActions call.  pc is "await" while the call is
\* suspended in `await Promise.resolve(result)` and "returned" afterwards.
\* read, readFrom, current and disposedAtReturn are history: whether the call
\* read the marker store, which process() call had written what it read,
\* whether that call had scanned the text current at the read, and the value
\* of `disposed` when the call returned.
ReturnedQuery(range, d) ==
    [pc |-> "returned", range |-> range, markers |-> <<>>, marker |-> NoMarker,
     found |-> FALSE, word |-> <<>>, cancelled |-> FALSE, list |-> <<>>,
     result |-> NullResult, read |-> FALSE, readFrom |-> 0, current |-> TRUE,
     disposedAtReturn |-> d]

provideCodeActions(range, maxQueries) ==
    /\ Len(queries) < maxQueries
    /\ attached
    /\ IF ProviderDisposed(disposed)
       THEN queries' = Append(queries, ReturnedQuery(range, disposed))
       ELSE LET markers == store
                k == FindMarker(markers, range)
                q == [ReturnedQuery(range, disposed) EXCEPT
                        !.markers = markers, !.read = TRUE,
                        !.readFrom = lastPub,
                        !.current = (lastPub # 0
                                       => calls[lastPub].lines = Split(text))]
            IN IF k = 0
               THEN queries' = Append(queries, q)
               ELSE queries' = Append(queries,
                        [q EXCEPT !.pc = "await", !.found = TRUE,
                                  !.marker = markers[k],
                                  !.word = markers[k].code])
    /\ UNCHANGED <<text, attached, dict, opts, disposed, disposables, hostRegs,
                   store, lastPub, calls, handlers, gen,
                   fixes, released, disposals, peer>>

\* the host cancels the query's token
cancel(k) ==
    /\ k \in 1..Len(queries)
    /\ queries[k].pc = "await"
    /\ ~queries[k].cancelled
    /\ queries' = [queries EXCEPT ![k].cancelled = TRUE]
    /\ UNCHANGED <<text, attached, dict, opts, disposed, disposables, hostRegs,
                   store, lastPub, calls, handlers, gen,
                   fixes, released, disposals, peer>>

\* the suggester's promise resolves to list and the query runs to its end
provideCodeActionsResume(k, list) ==
    /\ k \in 1..Len(queries)
    /\ queries[k].pc = "await"
    /\ LET q == queries[k] IN
       queries' = [queries EXCEPT ![k] =
           [q EXCEPT !.pc = "returned", !.list = list,
                     !.disposedAtReturn = disposed,
                     !.result =
                        IF CancelledAfterSuggest(q.cancelled)
                        THEN NullResult
                        ELSE [null |-> FALSE,
                              actions |-> BuildActions(list, q.word, q.marker, opts)]]]
    /\ UNCHANGED <<text, attached, dict, opts, disposed, disposables, hostRegs,
                   store, lastPub, calls, handlers, gen,
                   fixes, released, disposals, peer>>

-----------------------------------------------------------------------------
(* The ignore and add-word commands: lines 223-251 *)

\* if (word): the empty string (like a missing argument) is falsy
Truthy(word) == word # <<>>

\* process() called before the capability is awaited
CommandRun_processFirst(kind, id, word, maxCommands) ==
    /\ id \in hostRegs
    /\ Len(handlers) < maxCommands
    /\ Len(calls) < MaxCalls
    /\ handlers' = Append(handlers,
           [kind |-> kind, word |-> word,
            pc |-> IF Truthy(word) THEN "await" ELSE "done",
            invoked |-> IF Truthy(word) THEN 1 ELSE 0,
            started |-> IF Truthy(word) THEN Len(calls) + 1 ELSE 0])
    /\ IF Truthy(word)
       THEN processBody(dict)
       ELSE UNCHANGED <<store, lastPub, calls>>
    /\ UNCHANGED <<text, attached, dict, opts, disposed, disposables, hostRegs,
                   queries, gen,
                   fixes, released, disposals, peer>>

\* run: async (_, word) => { if (word) { await capability(word); process() } }
\* up to the await.  The host runs a command only while it is registered.
CommandRun(kind, id, word, maxCommands) ==
    /\ id \in hostRegs
    /\ Len(handlers) < maxCommands
    /\ handlers' = Append(handlers,
           [kind |-> kind, word |-> word,
            pc |-> IF Truthy(word) THEN "await" ELSE "done",
            invoked |-> IF Truthy(word) THEN 1 ELSE 0,
            started |-> 0])
    /\ UNCHANGED <<text, attached, dict, opts, disposed, disposables, hostRegs,
                   store, lastPub, calls, queries, gen,
                   fixes, released, disposals, peer>>

ignoreRun(word, maxCommands) ==
    CommandRun("ignore", ignoreActionId, word, maxCommands)

addWordRun(word, maxCommands) ==
    CommandRun("addWord", addWordActionId, word, maxCommands)

\* The capability's promise resolves: the embedder now accepts the word, and
\* the handler calls process().
commandResume(h, maxCalls) ==
    /\ h \in 1..Len(handlers)
    /\ handlers[h].pc = "await"
    /\ Len(calls) < maxCalls
    /\ dict' = dict \cup {handlers[h].word}
    /\ processBody(dict')
    /\ handlers' = [handlers EXCEPT ![h].pc = "done",
                                    ![h].started = Len(calls) + 1]
    /\ UNCHANGED <<text, attached, opts, disposed, disposables, hostRegs,
                   queries, gen,
                   fixes, released, disposals, peer>>

-----------------------------------------------------------------------------
(* The apply-suggestion command: lines 202-219 *)

\* if (!args || !args.range || !args.suggestion) return: the payload is an
\* object and so is its range; an empty suggestion is falsy like a missing one
ArgsRejected(a) == ~Truthy(a.suggestion)

RECURSIVE LineStart(_, _)
\* the number of characters before line n of lines, line ends included
LineStart(lines, n) ==
    IF n <= 1 THEN 0 ELSE LineStart(lines, n - 1) + Len(lines[n - 1]) + 1

\* the number of characters of t before the position (ln, col), which the
\* editor first brings into the document
OffsetAt(t, ln, col) ==
    LET lines == Split(t) IN
    IF ln < 1 THEN 0
    ELSE IF ln > Len(lines) THEN Len(t)
    ELSE LET c == IF col < 1 THEN 1
                  ELSE IF col > Len(lines[ln]) + 1 THEN Len(lines[ln]) + 1
                  ELSE col
         IN LineStart(lines, ln) + c - 1

\* editor.executeEdits(owner, [{range, text}]) on the document t
ApplyEdit(t, range, s) ==
    LET a == OffsetAt(t, range.startLineNumber, range.startColumn)
        b == OffsetAt(t, range.endLineNumber, range.endColumn)
    IN SubSeq(t, 1, a) \o s \o SubSeq(t, b + 1, Len(t))

\* the payloads of the apply-suggestion actions that query k returned
EmittedPayloads(k) ==
    {queries[k].result.actions[j].command.arguments[1] :
        j \in {x \in 1..Len(queries[k].result.actions) :
                  queries[k].result.actions[x].command.id
                      = buildCustomEditorId(correctActionId)}}

\* The host runs the apply-suggestion command with the payload a of an action
\* that query k returned.  log lists the editor calls the run made, in order.
correctRun(k, a, maxFixes) ==
    /\ correctActionId \in hostRegs
    /\ Len(fixes) < maxFixes
    /\ k \in 1..Len(queries)
    /\ queries[k].pc = "returned"
    /\ a \in EmittedPayloads(k)
    /\ IF ArgsRejected(a) \/ ~attached
       THEN /\ fixes' = Append(fixes, [args |-> a, log |-> <<>>])
            /\ text' = text
       ELSE /\ fixes' = Append(fixes,
                   [args |-> a,
                    log |-> <<[op |-> "pushUndoStop"],
                              [op |-> "executeEdits", source |-> owner,
                               range |-> a.range, text |-> a.suggestion]>>])
            /\ text' = ApplyEdit(text, a.range, a.suggestion)
    /\ UNCHANGED <<attached, dict, opts, disposed, disposables, hostRegs, store,
                   lastPub, calls, queries, handlers, gen, released, disposals,
                   peer>>

-----------------------------------------------------------------------------
(* A second session of the same host, on a document of its own.  Both sessions
   publish under the owner 'spellchecker' (line 78), each for its own model. *)

\* the second session's document: one misspelled word, answered at once
PeerDoc == zz

IdlePeer == [text |-> PeerDoc, store |-> <<>>, disposed |-> FALSE]

\* process() of the second session, whose checker answers every word of its
\* document at once: the call runs from line 82 to line 132 in one step and
\* writes the markers of its own model.
peerProcess ==
    /\ ~DisposedAtStart(peer.disposed)
    /\ LET c == Run(NewCall(peer.text, InitDict), InitDict, opts, FALSE)
       IN /\ c.pc = "publish"
          /\ peer' = [peer EXCEPT !.store = c.marks]
    /\ UNCHANGED <<text, attached, dict, opts, disposed, disposables, hostRegs,
                   store, lastPub, calls, queries, handlers, gen, fixes,
                   released, disposals>>

\* dispose() of the second session: removeAllMarkers(owner) again
peerDispose ==
    /\ ~peer.disposed
    /\ peer' = [peer EXCEPT !.store = <<>>, !.disposed = TRUE]
    /\ store' = <<>>
    /\ lastPub' = 0
    /\ UNCHANGED <<text, attached, dict, opts, disposed, disposables, hostRegs,
                   calls, queries, handlers, gen, fixes, released, disposals>>

-----------------------------------------------------------------------------
(* The tokenizer on its own: one generator, advanced one next() at a time *)

IdleGen == [g |-> NoGen, out |-> <<>>]

\* generator.next()
tokNext ==
    /\ ~gen.g.done
    /\ LET r == GenNext(gen.g) IN gen' = [g |-> r.g, out |-> gen.out \o r.yield]
    /\ UNCHANGED <<text, attached, dict, opts, disposed, disposables, hostRegs,
                   store, lastPub, calls, queries, handlers,
                   fixes, released, disposals, peer>>

\* every line of at most MaxLineLen characters over TokAlphabet
TokLines == UNION {[1..n -> TokAlphabet] : n \in 0..MaxLineLen}

-----------------------------------------------------------------------------
(* Specifications *)

Options == [ignore : BOOLEAN, addWord : BOOLEAN, severity : {0}]

InitSession(docs) ==
    /\ text \in docs
    /\ attached \in BOOLEAN
    /\ dict = InitDict
    /\ opts \in Options
    /\ disposed = FALSE
    /\ disposables = InitDisposables(opts)
    /\ hostRegs = SeqRange(InitDisposables(opts))
    /\ store = <<>>
    /\ lastPub = 0
    /\ calls = <<>>
    /\ queries = <<>>
    /\ handlers = <<>>
    /\ fixes = <<>>
    /\ released = [id \in RegistrationIds |-> 0]
    /\ disposals = 0
    /\ peer = IdlePeer

Init ==
    /\ InitSession(SmallDocs)
    /\ gen = IdleGen

\* the steps of a session whose documents are docs, within the given bounds
SessionNext(docs, maxCalls, maxQueries, maxCommands, maxDisposals) ==
    \/ process(maxCalls)
    \/ \E i \in 1..maxCalls : processResume(i)
    \/ dispose(maxDisposals)
    \/ \E d \in docs : setValue(d)
    \/ \E r \in QueryRanges : provideCodeActions(r, maxQueries)
    \/ \E k \in 1..maxQueries : cancel(k)
    \/ \E k \in 1..maxQueries : \E list \in SuggestLists :
          provideCodeActionsResume(k, list)
    \/ \E w \in CommandWords : ignoreRun(w, maxCommands)
    \/ \E w \in CommandWords : addWordRun(w, maxCommands)
    \/ \E h \in 1..maxCommands : commandResume(h, maxCalls)

Next == SessionNext(SmallDocs, MaxCalls, MaxQueries, MaxCommands, MaxDisposals)

Spec == Init /\ [][Next]_vars

\* the tokenizer specification: the session is left alone
InitTok ==
    /\ InitSession({DocEmpty})
    /\ attached = FALSE
    /\ opts = [ignore |-> FALSE, addWord |-> FALSE, severity |-> 0]
    /\ gen \in {[g |-> NewGen(t), out |-> <<>>] : t \in TokLines}

NextTok == tokNext

SpecTok == InitTok /\ [][NextTok]_vars

\* the long documents: a session with every capability configured
InitCap ==
    /\ InitSession(LongDocs)
    /\ attached = TRUE
    /\ opts = [ignore |-> TRUE, addWord |-> TRUE, severity |-> 0]
    /\ gen = IdleGen

NextCap ==
    SessionNext(LongDocs, CapMaxCalls, CapMaxQueries, CapMaxCommands,
                MaxDisposals)

SpecCap == InitCap /\ [][NextCap]_vars

\* the session on documents with words the checker fails on
InitThrow ==
    /\ InitSession(ThrowDocs)
    /\ gen = IdleGen

NextThrow ==
    SessionNext(ThrowDocs, MaxCalls, MaxQueries, MaxCommands, MaxDisposals)

SpecThrow == InitThrow /\ [][NextThrow]_vars

\* the session together with the host's other clients: the apply-suggestion
\* command, repeated dispose() calls and a second session
InitHost ==
    /\ InitSession(SmallDocs)
    /\ attached = TRUE
    /\ gen = IdleGen

\* every payload the provider can emit for the suggestion lists above
Payloads ==
    {[range |-> m, suggestion |-> w] :
        m \in UNION {SeqRange(queries[k].markers) : k \in 1..Len(queries)},
        w \in UNION {SeqRange(list) : list \in SuggestLists}}

NextHost ==
    \/ SessionNext(SmallDocs, HostMaxCalls, HostMaxQueries, HostMaxCommands,
                   HostMaxDisposals)
    \/ \E k \in 1..HostMaxQueries : \E a \in Payloads :
          correctRun(k, a, MaxFixes)
    \/ peerProcess
    \/ peerDispose

SpecHost == InitHost /\ [][NextHost]_vars

\* The session with a checker whose promises all settle: a call suspended at
\* line 107 is resumed sooner or later.
InitLive ==
    /\ InitSession(SmallDocs)
    /\ attached = TRUE
    /\ opts = [ignore |-> TRUE, addWord |-> TRUE, severity |-> 0]
    /\ gen = IdleGen

\* process() and what it races with: edits, dispose() and the commands that
\* change the checker's answers and call process() themselves
NextLive ==
    \/ process(MaxCalls)
    \/ \E i \in 1..MaxCalls : processResume(i)
    \/ dispose(MaxDisposals)
    \/ \E d \in SmallDocs : setValue(d)
    \/ \E w \in CommandWords : ignoreRun(w, MaxCommands)
    \/ \E h \in 1..MaxCommands : commandResume(h, MaxCalls)

SpecLive ==
    /\ InitLive
    /\ [][NextLive]_vars
    /\ \A i \in 1..MaxCalls : WF_vars(processResume(i))

-----------------------------------------------------------------------------
(* Properties *)

Published(i) == calls[i].pc = "published"

\* the number of setModelMarkers calls made so far
NumWrites == Cardinality({i \in 1..Len(calls) : Published(i)})

\* the number of check() calls made so far
RECURSIVE ChecksUpTo(_)
ChecksUpTo(n) == IF n = 0 THEN 0 ELSE calls[n].checks + ChecksUpTo(n - 1)

NumChecks == ChecksUpTo(Len(calls))

\* C1: a process() call that was suspended in the await of a checker result
\* when dispose() ran never publishes: once it has resumed it has returned
\* without writing, and the marker store of the owner is empty.
C1_DisposeDuringProcess ==
    \A i \in 1..Len(calls) :
        calls[i].interrupted =>
            /\ calls[i].pc \in {"await", "return"}
            /\ calls[i].pc = "return" => store = <<>>

\* C1 witness: dispose() ran while a call that had already collected a
\* diagnostic was suspended, and the call has resumed and ended.
C1_Witness ==
    \E i \in 1..Len(calls) :
        /\ calls[i].interrupted
        /\ calls[i].pc = "return"
        /\ calls[i].marks # <<>>
        /\ store = <<>>

\* C2: once dispose() has returned, no step writes the marker store or calls
\* the checker: the store stays empty and the counts of setModelMarkers and
\* check() calls stay what they were.
C2_NoWorkAfterDispose ==
    [][disposed => /\ store' = <<>>
                   /\ NumWrites' = NumWrites
                   /\ NumChecks' = NumChecks]_vars

\* C2 witness: after dispose(), a call that was in flight has resumed and an
\* ignore / add-word handler has got its capability's answer and called
\* process().
C2_Witness ==
    /\ disposed
    /\ attached
    /\ \E i \in 1..Len(calls) : calls[i].interrupted /\ calls[i].pc = "return"
    /\ \E h \in 1..Len(handlers) :
          /\ handlers[h].pc = "done"
          /\ handlers[h].started # 0
          /\ calls[handlers[h].started].pc = "return"
          /\ calls[handlers[h].started].checks = 0

\* C3: a code-action query that returns while the session is disposed
\* returns no actions, also when dispose() ran while it awaited the suggester.
C3_NoActionsOnceDisposed ==
    \A k \in 1..Len(queries) :
        (queries[k].pc = "returned" /\ queries[k].disposedAtReturn)
            => queries[k].result = NullResult

\* C4: no process() call publishes more than MaxMarkers diagnostics.
C4_PublishedWithinCap ==
    \A i \in 1..Len(calls) : Published(i) => Len(calls[i].marks) <= MaxMarkers

-----------------------------------------------------------------------------
(* What the tokenizer is expected to yield, stated over the whole line *)

InClass(t, k) == k >= 0 /\ k < Len(t) /\ t[k + 1] \in ClassChars

\* where the maximal runs of letters and apostrophes start, and where the
\* run that starts at a ends (the position after its last character)
RunStarts(t) == {a \in 0..(Len(t) - 1) : InClass(t, a) /\ ~InClass(t, a - 1)}

RunEndOf(t, a) ==
    CHOOSE b \in (a + 1)..Len(t) :
        ~InClass(t, b) /\ \A k \in a..(b - 1) : InClass(t, k)

SetMin(S) == CHOOSE x \in S : \A y \in S : x <= y
SetMax(S) == CHOOSE x \in S : \A y \in S : y <= x

\* every maximal run of at least MinWordLen characters, with its offset
MaximalRunTokens(t) ==
    {[word |-> SubSeq(t, a + 1, RunEndOf(t, a)), pos |-> a] :
        a \in {x \in RunStarts(t) : RunEndOf(t, x) - x >= MinWordLen}}

\* the word boundaries (\b) inside or at the ends of the run that starts at a
RunBoundaries(t, a) == {k \in a..RunEndOf(t, a) : AtBoundary(t, k)}

\* of every maximal run, the part from its first to its last word boundary,
\* when that part has at least MinWordLen characters
BoundedPart(t, a) ==
    LET B == RunBoundaries(t, a) IN
    IF B = {} THEN [from |-> a, to |-> a]
    ELSE [from |-> SetMin(B), to |-> SetMax(B)]

BoundedRunTokens(t) ==
    {[word |-> SubSeq(t, p.from + 1, p.to), pos |-> p.from] :
        p \in {x \in {BoundedPart(t, a) : a \in RunStarts(t)} :
                 x.to - x.from >= MinWordLen}}

\* seq lists exactly the tokens of S, from left to right
ListsTokens(seq, S) ==
    /\ Len(seq) = Cardinality(S)
    /\ \A i \in 1..Len(seq) : seq[i] \in S
    /\ \A i \in 1..(Len(seq) - 1) : seq[i].pos < seq[i + 1].pos

\* the diagnostics a scan of lines is expected to collect when the checker
\* accepts exactly the words of d
ExpectedDiagnostics(lines, d) ==
    UNION {{[code |-> tk.word, line |-> k, startColumn |-> tk.pos + 1,
             endColumn |-> tk.pos + 1 + Len(tk.word)] :
               tk \in {x \in BoundedRunTokens(lines[k]) : x.word \notin d}} :
           k \in 1..Len(lines)}

Diagnostic(m) ==
    [code |-> m.code, line |-> m.startLineNumber,
     startColumn |-> m.startColumn, endColumn |-> m.endColumn]

\* m1 comes before m2 in line order and, within a line, from left to right
Before(m1, m2) ==
    \/ m1.startLineNumber < m2.startLineNumber
    \/ /\ m1.startLineNumber = m2.startLineNumber
       /\ m1.startColumn < m2.startColumn

\* marks lists exactly the diagnostics of E in scan order
ListsDiagnostics(marks, E) ==
    /\ Len(marks) = Cardinality(E)
    /\ \A j \in 1..Len(marks) :
          /\ Diagnostic(marks[j]) \in E
          /\ marks[j].endLineNumber = marks[j].startLineNumber
    /\ \A j \in 1..(Len(marks) - 1) : Before(marks[j], marks[j + 1])

\* the checker answered every word of call i from one and the same dictionary
SteadyChecker(i) == calls[i].d0 = calls[i].d1

\* C5: a process() call that completes on a document with N <= MaxMarkers
\* misspelled token occurrences (the checker's dictionary unchanged during the
\* scan) publishes exactly those N diagnostics: one per occurrence, on line
\* lineIndex + 1 from column offset + 1 to offset + 1 + length(word), in
\* line order and from left to right within a line.
C5_PublishesEveryMisspelling ==
    \A i \in 1..Len(calls) :
        (Published(i) /\ SteadyChecker(i)) =>
            LET E == ExpectedDiagnostics(calls[i].lines, calls[i].d0) IN
            Cardinality(E) <= MaxMarkers => ListsDiagnostics(calls[i].marks, E)

\* C5 witness: a call has published exactly MaxMarkers diagnostics for a
\* document with exactly MaxMarkers misspelled occurrences and a further line.
C5_Witness ==
    \E i \in 1..Len(calls) :
        /\ Published(i)
        /\ SteadyChecker(i)
        /\ Len(calls[i].lines) > 1
        /\ Len(calls[i].marks) = MaxMarkers
        /\ Cardinality(ExpectedDiagnostics(calls[i].lines, calls[i].d0))
               = MaxMarkers

\* what the process() call numbered i published (nothing for i = 0)
PublishedBy(i) == IF i = 0 THEN <<>> ELSE calls[i].marks

\* m marks a token of lines
MarksTokenOf(m, lines) ==
    /\ m.startLineNumber \in 1..Len(lines)
    /\ m.endLineNumber = m.startLineNumber
    /\ m.endColumn = m.startColumn + Len(m.code)
    /\ [word |-> m.code, pos |-> m.startColumn - 1]
           \in BoundedRunTokens(lines[m.startLineNumber])

\* C6 as stated: what the provider reads is the list process() published last,
\* and that list was computed from the text current at the time of the read.
C6_ReadsCurrentDiagnostics ==
    \A k \in 1..Len(queries) :
        queries[k].read =>
            /\ queries[k].markers = PublishedBy(queries[k].readFrom)
            /\ queries[k].current

\* C6 amended: what the provider reads is the list process() published last
\* (nothing when no call has published since construction or dispose()), and
\* every diagnostic of it marks a token of the text that call took its
\* snapshot of when it started, which need not be the current text.
C6_ReadsLastPublished ==
    \A k \in 1..Len(queries) :
        queries[k].read =>
            /\ queries[k].markers = PublishedBy(queries[k].readFrom)
            /\ queries[k].readFrom # 0 =>
                  \A j \in 1..Len(queries[k].markers) :
                      MarksTokenOf(queries[k].markers[j],
                                   calls[queries[k].readFrom].lines)

\* C6 witness: the provider has read a non-empty list that was computed from
\* a text that was no longer current.
C6_Witness ==
    \E k \in 1..Len(queries) :
        /\ queries[k].read
        /\ queries[k].readFrom # 0
        /\ queries[k].markers # <<>>
        /\ ~queries[k].current

\* C7: a query that found a diagnostic containing its range, was not
\* cancelled and returned on a live session returns exactly one
\* apply-suggestion action per suggestion, in the suggester's order and with
\* payload {range of the diagnostic, suggestion}, then the ignore action iff
\* ignore is configured, then the add-word action iff addWord is configured,
\* both carrying the diagnostic's word.
C7_ActionOrder ==
    \A k \in 1..Len(queries) :
        LET q == queries[k]
            a == q.result.actions
            n == Len(q.list)
            ig == IF opts.ignore THEN 1 ELSE 0
            ad == IF opts.addWord THEN 1 ELSE 0
        IN (q.pc = "returned" /\ q.found /\ ~q.cancelled /\ ~q.disposedAtReturn)
           => /\ ContainsRange(q.marker, q.range)
              /\ \E j \in 1..Len(q.markers) :
                    /\ q.markers[j] = q.marker
                    /\ \A j2 \in 1..(j - 1) : ~ContainsRange(q.markers[j2], q.range)
              /\ ~q.result.null
              /\ Len(a) = n + ig + ad
              /\ \A j \in 1..n :
                    /\ a[j].command.id = buildCustomEditorId(correctActionId)
                    /\ a[j].command.arguments
                         = <<[range |-> q.marker, suggestion |-> q.list[j]]>>
              /\ opts.ignore =>
                    /\ a[n + 1].command.id = buildCustomEditorId(ignoreActionId)
                    /\ a[n + 1].command.arguments = <<q.marker.code>>
              /\ opts.addWord =>
                    /\ a[n + ig + 1].command.id
                         = buildCustomEditorId(addWordActionId)
                    /\ a[n + ig + 1].command.arguments = <<q.marker.code>>

\* C7 witness: with both capabilities configured a query has returned four
\* actions for two suggestions.
C7_Witness ==
    \E k \in 1..Len(queries) :
        /\ queries[k].pc = "returned"
        /\ queries[k].found
        /\ ~queries[k].cancelled
        /\ ~queries[k].disposedAtReturn
        /\ opts.ignore /\ opts.addWord
        /\ Len(queries[k].list) = 2
        /\ Len(queries[k].result.actions) = 4

\* the command ids of every action a query has returned
ReturnedCommandIds ==
    UNION {{queries[k].result.actions[j].command.id :
               j \in 1..Len(queries[k].result.actions)} :
           k \in 1..Len(queries)}

\* C8: without the ignore capability no ignore command is registered, none
\* is ever run and no query returns an ignore action; likewise for addWord.
C8_CapabilityGating ==
    /\ ~opts.ignore =>
          /\ ignoreActionId \notin hostRegs
          /\ ignoreActionId \notin SeqRange(disposables)
          /\ buildCustomEditorId(ignoreActionId) \notin ReturnedCommandIds
          /\ \A h \in 1..Len(handlers) : handlers[h].kind # "ignore"
    /\ ~opts.addWord =>
          /\ addWordActionId \notin hostRegs
          /\ addWordActionId \notin SeqRange(disposables)
          /\ buildCustomEditorId(addWordActionId) \notin ReturnedCommandIds
          /\ \A h \in 1..Len(handlers) : handlers[h].kind # "addWord"

\* C8 witness: a session without ignore but with addWord has answered a query
\* with actions, the add-word action among them.
C8_Witness ==
    /\ ~opts.ignore
    /\ opts.addWord
    /\ buildCustomEditorId(addWordActionId) \in ReturnedCommandIds
    /\ buildCustomEditorId(correctActionId) \in ReturnedCommandIds

\* C9: two process() calls that scanned the same text with the same,
\* unchanged checker dictionary published identical lists, whether the second
\* started after the first had completed or while it was suspended.
C9_Idempotent ==
    \A i \in 1..Len(calls) : \A j \in 1..Len(calls) :
        (/\ i < j
         /\ Published(i) /\ Published(j)
         /\ calls[i].lines = calls[j].lines
         /\ SteadyChecker(i) /\ SteadyChecker(j)
         /\ calls[i].d0 = calls[j].d0)
            => calls[i].marks = calls[j].marks

\* C9 witness: the second call started and published while the first was
\* suspended, and the first then published the same non-empty list.
C9_Witness ==
    /\ Len(calls) >= 2
    /\ Published(1) /\ Published(2)
    /\ lastPub = 1
    /\ calls[1].lines = calls[2].lines
    /\ SteadyChecker(1) /\ SteadyChecker(2)
    /\ calls[1].d0 = calls[2].d0
    /\ calls[1].marks # <<>>
    /\ calls[1].marks = calls[2].marks

\* C10 as stated: the tokenizer yields, left to right, exactly the maximal
\* runs of letters and apostrophes of at least MinWordLen characters.
C10_YieldsMaximalRuns ==
    gen.g.done => ListsTokens(gen.out, MaximalRunTokens(gen.g.text))

\* C10 amended: the tokenizer yields, left to right, of every maximal run of
\* letters and apostrophes the part between the run's first and last word
\* boundary (a position with a letter, digit or underscore on exactly one
\* side), when that part has at least MinWordLen characters, with the
\* zero-based index of its first character as offset.
C10_YieldsBoundedRuns ==
    gen.g.done => ListsTokens(gen.out, BoundedRunTokens(gen.g.text))

\* C10 witness: the generator has finished a line on which it yielded a word
\* that is not a maximal run.
C10_Witness ==
    /\ gen.g.done
    /\ gen.out # <<>>
    /\ \E i \in 1..Len(gen.out) : gen.out[i] \notin MaximalRunTokens(gen.g.text)

-----------------------------------------------------------------------------
(* C11 *)

\* the scan of call c is over: past the last line, or stopped by the cap
ScanComplete(c) == c.lineIndex >= Len(c.lines) \/ CapReached(c.marks)

\* the calls that reach line 132 in this step
NewlyPublished ==
    {i \in 1..Len(calls') :
        calls'[i].pc = "published" /\ ~(i <= Len(calls) /\ Published(i))}

\* C11: a process() call writes the marker store at most once, only after its
\* whole scan, with its complete list; a call that ended early never writes,
\* and the store changes only by such a write or by dispose().
C11_SingleWriteAtEnd ==
    [][/\ \A i \in 1..Len(calls) :
            /\ Published(i) => calls'[i] = calls[i]
            /\ calls[i].pc = "return" => calls'[i] = calls[i]
       /\ \A i \in NewlyPublished :
            /\ NewlyPublished = {i}
            /\ ScanComplete(calls'[i])
            /\ store' = calls'[i].marks
       /\ store' # store =>
            \/ NewlyPublished # {}
            \/ ~disposed /\ disposed' /\ store' = <<>>]_vars

\* a call published, in one write, the list it had gathered over several
\* checker answers, while a second call is still suspended in its scan
C11_Witness ==
    /\ Len(calls) = 2
    /\ \E i, j \in 1..2 :
         /\ Published(i) /\ calls[i].checks >= 3 /\ Len(calls[i].marks) = 2
         /\ store = calls[i].marks
         /\ calls[j].pc = "await" /\ calls[j].marks # <<>>

-----------------------------------------------------------------------------
(* C12 *)

\* the diagnostics of E on the first k lines
UpToLine(E, k) == {e \in E : e.line <= k}

\* the number of lines a scan goes through: up to the first line at whose
\* start more than MaxMarkers diagnostics of E have been collected
LinesScanned(lines, E) ==
    SetMin({k \in 0..Len(lines) :
               k = Len(lines) \/ Cardinality(UpToLine(E, k)) > MaxMarkers})

\* the number of tokens on the first k lines
TokensUpToLine(lines, k) ==
    Cardinality(UNION {{<<n, tk>> : tk \in BoundedRunTokens(lines[n])} :
                          n \in 1..k})

\* C12: once more than MaxMarkers diagnostics have been collected at the start
\* of a line, that line and every later line are neither tokenized nor passed
\* to the checker: the scan ends there and the list collected so far is
\* published (the checker's dictionary unchanged during the scan).
C12_StopsAtCap ==
    \A i \in 1..Len(calls) :
        (Published(i) /\ SteadyChecker(i)) =>
            LET E == ExpectedDiagnostics(calls[i].lines, calls[i].d0)
                n == LinesScanned(calls[i].lines, E)
            IN /\ calls[i].lineIndex = n
               /\ calls[i].checks = TokensUpToLine(calls[i].lines, n)
               /\ ListsDiagnostics(calls[i].marks, UpToLine(E, n))
               /\ store = calls[i].marks \/ lastPub # i

\* a call went over MaxMarkers on its second line and published without
\* looking at the third
C12_Witness ==
    \E i \in 1..Len(calls) :
        /\ Published(i)
        /\ SteadyChecker(i)
        /\ Len(calls[i].lines) = 3
        /\ calls[i].lineIndex = 2
        /\ BoundedRunTokens(calls[i].lines[3]) # {}
        /\ calls[i].checks = MaxMarkers + 1
        /\ Len(calls[i].marks) = MaxMarkers + 1
        /\ store = calls[i].marks

-----------------------------------------------------------------------------
(* C13 *)

\* C13: overlapping process() calls are neither serialized nor cancelled.
\* Starting a call leaves every earlier call as it stands, suspended ones
\* included, and a call that reaches the end of its scan publishes its list
\* whatever calls started later have published before it: the store then
\* holds the list of the call that published last, not of the one that
\* started last.
C13_LastPublisherWins ==
    [][/\ Len(calls') > Len(calls) =>
            \A i \in 1..Len(calls) : calls'[i] = calls[i]
       /\ \A i \in NewlyPublished :
            store' = calls'[i].marks /\ lastPub' = i]_vars

\* the stale overwrite: call 1, started on an older text, published after
\* call 2, and the store holds the list of call 1
C13_Witness ==
    /\ Len(calls) = 2
    /\ Published(1) /\ Published(2)
    /\ calls[1].lines # calls[2].lines
    /\ calls[2].lines = Split(text)
    /\ lastPub = 1
    /\ store = calls[1].marks
    /\ store # calls[2].marks

-----------------------------------------------------------------------------
(* C14 *)

\* C14: a fix-action query whose token was cancelled by the time the
\* suggester's result has been awaited returns no actions at all, whatever
\* the suggester returned and whichever capabilities are configured.
C14_CancelledReturnsNothing ==
    \A k \in 1..Len(queries) :
        (queries[k].pc = "returned" /\ queries[k].cancelled) =>
            /\ queries[k].result.null
            /\ queries[k].result.actions = <<>>

\* a cancelled query returned although it had found a diagnostic, the
\* suggester had answered with suggestions and both capabilities are configured
C14_Witness ==
    \E k \in 1..Len(queries) :
        /\ queries[k].pc = "returned"
        /\ queries[k].cancelled
        /\ queries[k].found
        /\ Len(queries[k].list) = 2
        /\ opts.ignore /\ opts.addWord
        /\ ~queries[k].disposedAtReturn

-----------------------------------------------------------------------------
(* C15 *)

\* C15: an ignore or add-word command run with a word invokes its capability
\* exactly once, with that word, and starts no process() call in that step;
\* the step in which the capability's promise resolves starts exactly one
\* process() call, which already sees the word accepted; in no other step
\* does the command invoke the capability or start a call.  A command run
\* without a word invokes nothing and starts nothing.
C15_ProcessAfterCapability ==
    [][\A h \in 1..Len(handlers') :
          LET y == handlers'[h] IN
          IF h > Len(handlers)
          THEN /\ calls' = calls /\ dict' = dict
               /\ y.started = 0
               /\ y.invoked = (IF Truthy(y.word) THEN 1 ELSE 0)
               /\ y.pc = (IF Truthy(y.word) THEN "await" ELSE "done")
          ELSE LET x == handlers[h] IN
               IF x.pc = "await" /\ y.pc = "done"
               THEN /\ Len(calls') = Len(calls) + 1
                    /\ y.started = Len(calls')
                    /\ y.invoked = 1 /\ y.word = x.word
                    /\ x.word \in dict'
                    /\ calls'[y.started].d0 = dict'
                    /\ \A g \in 1..Len(handlers') :
                          g # h => handlers'[g].started # y.started
               ELSE y = x]_vars

\* a command run with a word has completed: its capability was invoked once
\* and the one process() call it started scanned with the word accepted
C15_Witness ==
    \E h \in 1..Len(handlers) :
        /\ handlers[h].pc = "done"
        /\ handlers[h].word = qq
        /\ handlers[h].invoked = 1
        /\ handlers[h].started = 2
        /\ Published(2)
        /\ qq \in calls[2].d0
        /\ qq \notin calls[1].d0

-----------------------------------------------------------------------------
(* C16 *)

\* call i is started or runs on in this step
CallStepped(i) ==
    \/ i > Len(calls)
    \/ calls'[i].pc # calls[i].pc
    \/ calls'[i].checks # calls[i].checks

\* C16: a process() call in which the checker throws, or its promise
\* rejects, writes nothing to the marker store: the call ends at the failing
\* token without publishing, none of its steps changes the store, and it
\* never runs again, so the store holds whatever it held apart from that call.
C16_FailedCallWritesNothing ==
    [][\A i \in 1..Len(calls') :
          /\ (CallStepped(i) /\ CheckFails(calls'[i].token.word)) =>
                 /\ calls'[i].pc \in {"await", "threw"}
                 /\ calls'[i].pc = "await" => ~CheckIsSync(calls'[i].token.word)
                 /\ store' = store /\ lastPub' = lastPub
          /\ (CallStepped(i) /\ calls'[i].pc # "published") =>
                 store' = store /\ lastPub' = lastPub
          /\ (i <= Len(calls) /\ calls[i].pc = "threw") =>
                 calls'[i] = calls[i]]_vars

\* a call failed after it had collected a diagnostic, and the store still
\* holds the different list an earlier call published
C16_Witness ==
    /\ Len(calls) = 2
    /\ Published(1)
    /\ lastPub = 1
    /\ store = calls[1].marks
    /\ store # <<>>
    /\ calls[2].pc = "threw"
    /\ calls[2].marks # <<>>
    /\ calls[2].marks # store

-----------------------------------------------------------------------------
(* C17 *)

\* C17: every run of the apply-suggestion command with a payload
\* {range, suggestion} that the provider emitted, the empty suggestion
\* included, pushes exactly one undo checkpoint and then makes exactly one
\* edit that replaces the range with the suggestion.
C17_ApplyPushesUndoThenEdits ==
    \A n \in 1..Len(fixes) :
        /\ Len(fixes[n].log) = 2
        /\ fixes[n].log[1] = [op |-> "pushUndoStop"]
        /\ fixes[n].log[2] = [op |-> "executeEdits", source |-> owner,
                              range |-> fixes[n].args.range,
                              text |-> fixes[n].args.suggestion]

-----------------------------------------------------------------------------
(* C18 *)

\* C18: dispose() is idempotent.  Once the session is disposed its array of
\* registrations is empty, none of them is live in the host and the store is
\* cleared; a further dispose() call changes nothing of the session; and over
\* any number of dispose() calls every registration made at construction is
\* released exactly once, and no other.
C18_DisposeIdempotent ==
    /\ [](\A id \in RegistrationIds :
            /\ released[id] <= 1
            /\ disposed => released[id] = Occurrences(InitDisposables(opts), id))
    /\ [](disposed => disposables = <<>> /\ hostRegs = {} /\ store = <<>>)
    /\ [][(disposals >= 1 /\ disposals' > disposals) =>
            UNCHANGED <<text, attached, dict, opts, disposed, disposables,
                        hostRegs, store, lastPub, calls, queries, handlers,
                        fixes, released>>]_vars

\* dispose() was called twice on a session with all four registrations, the
\* first time while a process() call was suspended
C18_Witness ==
    /\ disposals = 2
    /\ disposed
    /\ opts.ignore /\ opts.addWord
    /\ \A id \in RegistrationIds : released[id] = 1
    /\ Len(calls) = 1 /\ calls[1].pc = "return" /\ calls[1].interrupted

-----------------------------------------------------------------------------
(* C19 *)

\* C19: with a second live session on another document, dispose() of this
\* session removes its own diagnostics only: those the second session
\* published stay in the marker store as they were.
C19_DisposeLeavesPeer ==
    [][(disposals' > disposals /\ ~peer.disposed) =>
          peer'.store = peer.store]_vars

-----------------------------------------------------------------------------
(* C20 *)

\* call i is over: it has published or returned early
Ended(i) == i <= Len(calls) /\ calls[i].pc \in {"published", "return"}

\* C20: on an attached document, with a checker whose every call resolves,
\* every process() call that is started ends, and an ended call stays as it
\* is: it has published, once, or it has returned without publishing, which
\* happens only once the session is disposed; a call that is suspended when
\* the session is disposed does not publish any more.
C20_EveryCallEnds ==
    /\ \A i \in 1..MaxCalls : (i <= Len(calls)) ~> Ended(i)
    /\ [](\A i \in 1..Len(calls) :
            /\ calls[i].pc = "return" => disposed
            /\ ~disposed => calls[i].pc \in {"await", "published"})
    /\ [][\A i \in 1..Len(calls) :
            /\ Ended(i) => calls'[i] = calls[i]
            /\ (calls[i].pc = "await" /\ disposed) =>
                   calls'[i].pc \in {"await", "return"}]_vars

\* one call has published what it gathered over several checker answers,
\* another, suspended when dispose() ran, has returned without publishing
C20_Witness ==
    /\ Len(calls) = 2
    /\ Published(1) /\ calls[1].checks >= 2
    /\ calls[2].pc = "return" /\ calls[2].interrupted /\ calls[2].checks >= 1

====
